---- MODULE Spec2Model ----
(***************************************************************************)
(* Route analysis and climb scoring (analyzeRoute and the lap-expansion    *)
(* effect) of the PCS profile calculator.                                  *)
(*                                                                         *)
(* Number representation.  The JavaScript source works on IEEE doubles;    *)
(* the model works on exact numbers:                                       *)
(*   - a distance (dist, startDist, endDist, totalDistance, lengthKm,      *)
(*     distFromFinish) is an integer count of 0.1 km, so 0.2 km is 2 and   *)
(*     25 km is 250; KmOf converts to kilometres where a formula needs it; *)
(*   - an elevation or a gain is an integer count of metres;               *)
(*   - a gradient, a score, a multiplier or a ratio is an exact rational,  *)
(*     a record [n |-> numerator, d |-> denominator] in lowest terms with  *)
(*     d > 0.                                                              *)
(* Rounding of doubles is therefore outside the model.                     *)
(*                                                                         *)
(* The repository holds three copies of the component with minor           *)
(* differences.  The model follows src/pages/PCS profiler.jsx (climb id    *)
(* and name, the zero-length guard, the sort) and adds to the analysis     *)
(* record the climb weighting that only the copy at the head of            *)
(* src/unnamed/part_000 computes.                                          *)
(***************************************************************************)
EXTENDS Integers, Sequences, FiniteSets, TLC

VARIABLES baseData, laps, pc, points, totalDistance, i, chunks, k, climbs,
          currentClimb, fileData, isProcessing, reading

vars == <<baseData, laps, pc, points, totalDistance, i, chunks, k, climbs,
          currentClimb, fileData, isProcessing, reading>>

\* the state of the component outside the analysis: the processing flag and
\* the texts of the files whose FileReader has not fired onload yet
readVars == <<isProcessing, reading>>

(***************************************************************************)
(* Bounds of the model.                                                    *)
(***************************************************************************)
MaxPoints == 4

MaxLaps == 2

(***************************************************************************)
(* Exact rational arithmetic standing for the source's number arithmetic.  *)
(***************************************************************************)
Abs(x) == IF x < 0 THEN -x ELSE x

RECURSIVE GCD(_, _)
GCD(a, b) == IF b = 0 THEN a ELSE GCD(b, a % b)

Rat(n, d) ==
  LET g == GCD(Abs(n), Abs(d))
      s == IF d < 0 THEN -1 ELSE 1
  IN  [n |-> s * (n \div g), d |-> s * (d \div g)]

RInt(x) == [n |-> x, d |-> 1]

RAdd(a, b) ==
  LET g == GCD(a.d, b.d)
  IN  Rat(a.n * (b.d \div g) + b.n * (a.d \div g), (a.d \div g) * b.d)

RMul(a, b) ==
  LET x == Rat(a.n, b.d)
      y == Rat(b.n, a.d)
  IN  [n |-> x.n * y.n, d |-> x.d * y.d]

RDiv(a, b) == RMul(a, Rat(b.d, b.n))

RLt(a, b) ==
  LET g == GCD(a.d, b.d)
  IN  a.n * (b.d \div g) < b.n * (a.d \div g)

RLe(a, b) == ~RLt(b, a)

RMin(a, b) == IF RLt(b, a) THEN b ELSE a

RMax(a, b) == IF RLt(a, b) THEN b ELSE a

\* a distance of the model (count of 0.1 km) as a number of kilometres
KmOf(dist) == Rat(dist, 10)

(***************************************************************************)
(* Input space.  A base track is what processGPX stores in baseData: the   *)
(* points of one lap with their cumulative distance, first distance 0.     *)
(* It is drawn as a sequence of steps <<distance, climb>> from one point   *)
(* to the next.                                                            *)
(***************************************************************************)
Steps == { <<0, 4>>, <<1, 2>>, <<2, 3>>, <<2, 20>>, <<2, 21>>, <<2, 60>>,
           <<2, -21>>, <<100, 0>>, <<198, 0>>, <<250, 0>>, <<500, 0>> }

StepSeqs == UNION { [1..m -> Steps] : m \in 0..(MaxPoints - 1) }

RECURSIVE TrackOf(_, _)
TrackOf(steps, acc) ==
  IF steps = <<>> THEN acc
  ELSE LET last == acc[Len(acc)]
           s == Head(steps)
       IN  TrackOf(Tail(steps),
                   Append(acc, [lat |-> last.lat + s[1], lon |-> 0,
                                ele |-> last.ele + s[2],
                                dist |-> last.dist + s[1]]))

BaseTracks ==
  { LET pts == TrackOf(ss, << [lat |-> 0, lon |-> 0, ele |-> 0, dist |-> 0] >>)
    IN  [points |-> pts, distance |-> pts[Len(pts)].dist] : ss \in StepSeqs }

(***************************************************************************)
(* The effect on [baseData, laps]: lap expansion.                          *)
(* baseData and fileData are <<>> for null and <<v>> for the value v.      *)
(***************************************************************************)
lapPoints_noOffset(base, lapOffset) == base.points

lapPoints(base, lapOffset) ==
  [x \in 1..Len(base.points) |->
     [base.points[x] EXCEPT !.dist = base.points[x].dist + lapOffset]]

RECURSIVE fullPoints_exclusive(_, _, _)
fullPoints_exclusive(base, n, lap) ==
  IF lap >= n - 1 THEN <<>>
  ELSE lapPoints(base, lap * base.distance)
       \o fullPoints_exclusive(base, n, lap + 1)

RECURSIVE fullPoints(_, _, _)
fullPoints(base, n, lap) ==
  IF lap >= n THEN <<>>
  ELSE lapPoints(base, lap * base.distance) \o fullPoints(base, n, lap + 1)

(***************************************************************************)
(* analyzeRoute, step 1: distance chunks.                                  *)
(* Indices are 1-based here: the source's index x is x + 1.                *)
(***************************************************************************)
CHUNK_SIZE == 2

RECURSIVE scanJ_beyond(_, _, _)
scanJ_beyond(pts, start, j) ==
  IF j <= Len(pts) /\ pts[j].dist - pts[start].dist <= CHUNK_SIZE
  THEN scanJ_beyond(pts, start, j + 1)
  ELSE j

RECURSIVE scanJ_short(_, _, _)
scanJ_short(pts, start, j) ==
  IF j <= Len(pts) /\ pts[j].dist - pts[start].dist < CHUNK_SIZE - 1
  THEN scanJ_short(pts, start, j + 1)
  ELSE j

\* the while loop: the first j >= from that is out of range or at least
\* CHUNK_SIZE away from the start point
RECURSIVE scanJ(_, _, _)
scanJ(pts, start, j) ==
  IF j <= Len(pts) /\ pts[j].dist - pts[start].dist < CHUNK_SIZE
  THEN scanJ(pts, start, j + 1)
  ELSE j

gradientOf(gain, dist) ==
  RMul(RDiv(RInt(gain), RMul(KmOf(dist), RInt(1000))), RInt(100))

makeChunk(start, end) ==
  [startDist |-> start.dist, endDist |-> end.dist,
   gradient |-> gradientOf(end.ele - start.ele, end.dist - start.dist),
   gain |-> end.ele - start.ele, startEle |-> start.ele, endEle |-> end.ele]

(***************************************************************************)
(* analyzeRoute, step 2: aggregation of chunks into climbs.                *)
(* currentClimb is <<>> for null and <<c>> for the open climb c.           *)
(***************************************************************************)
UPHILL == Rat(3, 2)

isUphill_inclusive(chunk) == RLe(UPHILL, chunk.gradient)

isUphill(chunk) == RLt(UPHILL, chunk.gradient)

startClimb(chunk) ==
  [startDist |-> chunk.startDist, endDist |-> chunk.endDist,
   gain |-> chunk.gain, chunks |-> <<chunk>>]

extendClimb(c, chunk) ==
  [c EXCEPT !.endDist = chunk.endDist, !.gain = c.gain + chunk.gain,
            !.chunks = Append(c.chunks, chunk)]

\* one iteration of chunks.forEach: the new <<climbs, currentClimb>>
aggregate(cl, cur, chunk) ==
  IF isUphill(chunk)
  THEN IF cur = <<>> THEN <<cl, <<startClimb(chunk)>> >>
       ELSE <<cl, <<extendClimb(cur[1], chunk)>> >>
  ELSE IF cur # <<>> THEN <<Append(cl, cur[1]), <<>> >>
       ELSE <<cl, cur>>

flush_dropped(cl, cur) == cl

\* after the loop: push the last climb if the route ends on an uphill
flush(cl, cur) == IF cur # <<>> THEN Append(cl, cur[1]) ELSE cl

(***************************************************************************)
(* analyzeRoute, step 3: filter, score and finalize the climbs.            *)
(***************************************************************************)
\* a number of kilometres as a distance of the model
Km(x) == 10 * x

MIN_GAIN == 20

validGain_inclusive(c) == c.gain >= MIN_GAIN

validGain(c) == c.gain > MIN_GAIN

maxOf_first(gs) == gs[1]

RECURSIVE maxOf(_)
maxOf(gs) ==
  IF Len(gs) = 1 THEN gs[1] ELSE RMax(gs[1], maxOf(Tail(gs)))

multiplierOf_exclusive(distFromFinish) ==
  IF distFromFinish < Km(10) THEN Rat(10, 10)
  ELSE IF distFromFinish < Km(25) THEN Rat(8, 10)
  ELSE IF distFromFinish < Km(50) THEN Rat(6, 10)
  ELSE IF distFromFinish < Km(75) THEN Rat(4, 10)
  ELSE Rat(2, 10)

multiplierOf(distFromFinish) ==
  IF distFromFinish <= Km(10) THEN Rat(10, 10)
  ELSE IF distFromFinish <= Km(25) THEN Rat(8, 10)
  ELSE IF distFromFinish <= Km(50) THEN Rat(6, 10)
  ELSE IF distFromFinish <= Km(75) THEN Rat(4, 10)
  ELSE Rat(2, 10)

rawScoreOf_squareHalved(gradientAvg, lengthKm) ==
  RMul(RDiv(RMul(gradientAvg, gradientAvg), RInt(2)), KmOf(lengthKm))

rawScoreOf(gradientAvg, lengthKm) ==
  LET half == RDiv(gradientAvg, RInt(2))
  IN  RMul(RMul(half, half), KmOf(lengthKm))

\* the body of the .map callback: c is the climb, index its 0-based position
\* in the filtered list
scoreClimb(c, index, total) ==
  LET lengthKm == c.endDist - c.startDist
      gradientAvg == IF lengthKm > 0 THEN gradientOf(c.gain, lengthKm)
                     ELSE RInt(0)
      maxGradient == maxOf([x \in 1..Len(c.chunks) |-> c.chunks[x].gradient])
      rawScore == rawScoreOf(gradientAvg, lengthKm)
      distFromFinish == total - c.endDist
      multiplier == multiplierOf(distFromFinish)
  IN  [startDist |-> c.startDist, endDist |-> c.endDist, gain |-> c.gain,
       chunks |-> c.chunks, id |-> index + 1, name |-> "",
       lengthKm |-> lengthKm, gradientAvg |-> gradientAvg,
       maxGradient |-> maxGradient, rawScore |-> rawScore,
       multiplier |-> multiplier, finalScore |-> RMul(rawScore, multiplier),
       distFromFinish |-> distFromFinish]

\* .sort((a, b) => a.startDist - b.startDist): a stable insertion sort
RECURSIVE insertClimb(_, _)
insertClimb(sorted, c) ==
  IF sorted = <<>> THEN <<c>>
  ELSE IF sorted[Len(sorted)].startDist - c.startDist <= 0
       THEN Append(sorted, c)
       ELSE Append(insertClimb(SubSeq(sorted, 1, Len(sorted) - 1), c),
                   sorted[Len(sorted)])

RECURSIVE sortClimbs_descending(_)
sortClimbs_descending(cs) ==
  IF cs = <<>> THEN <<>>
  ELSE Append(sortClimbs_descending(Tail(cs)), Head(cs))

RECURSIVE sortClimbs(_)
sortClimbs(cs) ==
  IF cs = <<>> THEN <<>>
  ELSE insertClimb(sortClimbs(SubSeq(cs, 1, Len(cs) - 1)), cs[Len(cs)])

validClimbsOf_idsBeforeFilter(cl, total) ==
  sortClimbs(SelectSeq([x \in 1..Len(cl) |-> scoreClimb(cl[x], x - 1, total)],
                       validGain))

validClimbsOf_idsFromFinish(cl, total) ==
  LET kept == SelectSeq(cl, validGain)
  IN  sortClimbs([x \in 1..Len(kept) |->
                    scoreClimb(kept[x], Len(kept) - x, total)])

validClimbsOf(cl, total) ==
  LET kept == SelectSeq(cl, validGain)
  IN  sortClimbs([x \in 1..Len(kept) |-> scoreClimb(kept[x], x - 1, total)])

RECURSIVE sumFinalScore_fromOne(_)
sumFinalScore_fromOne(cs) ==
  IF cs = <<>> THEN RInt(1)
  ELSE RAdd(sumFinalScore_fromOne(SubSeq(cs, 1, Len(cs) - 1)),
            cs[Len(cs)].finalScore)

\* .reduce((acc, c) => acc + c.finalScore, 0)
RECURSIVE sumFinalScore(_)
sumFinalScore(cs) ==
  IF cs = <<>> THEN RInt(0)
  ELSE RAdd(sumFinalScore(SubSeq(cs, 1, Len(cs) - 1)), cs[Len(cs)].finalScore)

inFinalZone_exclusive(c, total) == c.endDist > total - Km(25)

inFinalZone_last50(c, total) == c.endDist >= total - Km(50)

inFinalZone(c, total) == c.endDist >= total - Km(25)

finalClimbsOf(cs, total) == SelectSeq(cs, LAMBDA c : inFinalZone(c, total))

(***************************************************************************)
(* The climb weighting (tpvClimbWeighting), with the rule for courses      *)
(* shorter than 20 km.                                                     *)
(***************************************************************************)
overallMetricOf(totalScore) == RDiv(totalScore, RInt(100))

finalZoneMetricCappedOf(finalProfileScore, total) ==
  LET finalZoneRatioUncapped ==
        IF total > 0 THEN RDiv(finalProfileScore, RInt(25)) ELSE RInt(0)
  IN  RMin(finalZoneRatioUncapped, Rat(8, 10))

tpvClimbWeightingRatioOf_upTo20(totalScore, finalProfileScore, total) ==
  IF total > 0 /\ total <= Km(20)
  THEN RDiv(totalScore, KmOf(total))
  ELSE RMax(overallMetricOf(totalScore),
            finalZoneMetricCappedOf(finalProfileScore, total))

tpvClimbWeightingRatioOf(totalScore, finalProfileScore, total) ==
  IF total > 0 /\ total < Km(20)
  THEN RDiv(totalScore, KmOf(total))
  ELSE RMax(overallMetricOf(totalScore),
            finalZoneMetricCappedOf(finalProfileScore, total))

tpvClimbWeightingOf_uncapped(ratio) == RMul(ratio, RInt(100))

tpvClimbWeightingOf(ratio) == RMin(RMul(ratio, RInt(100)), RInt(100))

(***************************************************************************)
(* Course totals.                                                          *)
(***************************************************************************)
RECURSIVE totalClimbingOf_moving(_, _)
totalClimbingOf_moving(pts, x) ==
  IF x > Len(pts) THEN 0
  ELSE LET elevationChange == pts[x].ele - pts[x - 1].ele
       IN  (IF elevationChange > 0 /\ pts[x].dist > pts[x - 1].dist
            THEN elevationChange ELSE 0)
           + totalClimbingOf_moving(pts, x + 1)

RECURSIVE totalClimbingOf(_, _)
totalClimbingOf(pts, x) ==
  IF x > Len(pts) THEN 0
  ELSE LET elevationChange == pts[x].ele - pts[x - 1].ele
       IN  (IF elevationChange > 0 THEN elevationChange ELSE 0)
           + totalClimbingOf(pts, x + 1)

maxEleOf(pts) ==
  CHOOSE m \in {pts[x].ele : x \in 1..Len(pts)} :
    \A y \in 1..Len(pts) : pts[y].ele <= m

minEleOf(pts) ==
  CHOOSE m \in {pts[x].ele : x \in 1..Len(pts)} :
    \A y \in 1..Len(pts) : pts[y].ele >= m

\* the record handed to setFileData
analysisOf(pts, total, cl) ==
  LET validClimbs == validClimbsOf(cl, total)
      totalScore == sumFinalScore(validClimbs)
      finalProfileScore == sumFinalScore(finalClimbsOf(validClimbs, total))
      ratio == tpvClimbWeightingRatioOf(totalScore, finalProfileScore, total)
  IN  [points |-> pts, totalDistance |-> total,
       totalClimbing |-> totalClimbingOf(pts, 2),
       totalGain |-> pts[Len(pts)].ele - pts[1].ele,
       maxEle |-> maxEleOf(pts), minEle |-> minEleOf(pts),
       climbs |-> validClimbs, totalScore |-> totalScore,
       finalProfileScore |-> finalProfileScore,
       tpvClimbWeighting |-> tpvClimbWeightingOf(ratio),
       overallMetric |-> overallMetricOf(totalScore),
       finalZoneMetric |-> finalZoneMetricCappedOf(finalProfileScore, total)]

(***************************************************************************)
(* The analysis of one <<baseData, laps>> as a state machine: the effect   *)
(* expands the laps, analyzeRoute chunks the points, aggregates the chunks *)
(* and stores the result.                                                  *)
(***************************************************************************)
InitAnalyze ==
  /\ baseData \in {<<b>> : b \in BaseTracks}
  /\ laps \in 1..MaxLaps
  /\ pc = "effect"
  /\ points = <<>>
  /\ totalDistance = 0
  /\ i = 1
  /\ chunks = <<>>
  /\ k = 1
  /\ climbs = <<>>
  /\ currentClimb = <<>>
  /\ fileData = <<>>
  /\ isProcessing = FALSE
  /\ reading = <<>>

\* useEffect: build the multi-lap points and enter analyzeRoute
Effect ==
  /\ pc = "effect"
  /\ baseData # <<>>
  /\ points' = fullPoints(baseData[1], laps, 0)
  /\ totalDistance' = baseData[1].distance * laps
  /\ pc' = "chunk"
  /\ i' = 1
  /\ chunks' = <<>>
  /\ UNCHANGED <<baseData, laps, k, climbs, currentClimb, fileData>>
  /\ UNCHANGED readVars

\* one iteration of the for loop over the points
ChunkStep ==
  /\ pc = "chunk"
  /\ i <= Len(points)
  /\ LET j == scanJ(points, i, i + 1)
     IN  IF j <= Len(points)
         THEN /\ chunks' = Append(chunks, makeChunk(points[i], points[j]))
              /\ i' = j
         ELSE /\ chunks' = chunks
              /\ i' = i + 1
  /\ UNCHANGED <<baseData, laps, pc, points, totalDistance, k, climbs,
                 currentClimb, fileData>>
  /\ UNCHANGED readVars

\* the for loop ends; the aggregation starts
ChunkDone ==
  /\ pc = "chunk"
  /\ i > Len(points)
  /\ pc' = "aggregate"
  /\ k' = 1
  /\ climbs' = <<>>
  /\ currentClimb' = <<>>
  /\ UNCHANGED <<baseData, laps, points, totalDistance, i, chunks, fileData>>
  /\ UNCHANGED readVars

\* one iteration of chunks.forEach
AggregateStep ==
  /\ pc = "aggregate"
  /\ k <= Len(chunks)
  /\ LET r == aggregate(climbs, currentClimb, chunks[k])
     IN  /\ climbs' = r[1]
         /\ currentClimb' = r[2]
  /\ k' = k + 1
  /\ UNCHANGED <<baseData, laps, pc, points, totalDistance, i, chunks,
                 fileData>>
  /\ UNCHANGED readVars

\* the rest of analyzeRoute: last climb, scoring, setFileData
Finish ==
  /\ pc = "aggregate"
  /\ k > Len(chunks)
  /\ climbs' = flush(climbs, currentClimb)
  /\ currentClimb' = <<>>
  /\ fileData' = << analysisOf(points, totalDistance, climbs') >>
  /\ pc' = "done"
  /\ UNCHANGED <<baseData, laps, points, totalDistance, i, chunks, k>>
  /\ UNCHANGED readVars

NextAnalyze == Effect \/ ChunkStep \/ ChunkDone \/ AggregateStep \/ Finish

SpecAnalyze == InitAnalyze /\ [][NextAnalyze]_vars

TypeOK ==
  /\ pc \in {"idle", "effect", "chunk", "aggregate", "done"}
  /\ laps \in 1..MaxLaps
  /\ Len(currentClimb) <= 1
  /\ Len(fileData) <= 1

(***************************************************************************)
(* The component as a whole: uploads, lap buttons, climb names, New        *)
(* Analysis and the effect on [baseData, laps].                            *)
(*                                                                         *)
(* A file is [gpx |-> whether its name ends in .gpx, text |-> its track    *)
(* points in document order]; a track point is [lat, lon, ele] with ele    *)
(* <<>> when the <ele> tag is missing and <<v>> otherwise.  The positions  *)
(* lie on one meridian and the latitude is counted in arcs of 0.1 km;      *)
(* there dLon = 0 and the haversine formula gives R * |dLat|.  The         *)
(* elevations of the files are such that every window mean of              *)
(* smoothElevation is a whole number of metres.                            *)
(*                                                                         *)
(* Each handler is one action, and the setState calls of one handler are   *)
(* committed together (React 18 batches them, in reader.onload too).       *)
(* pc = "effect" says that the last commit changed baseData or laps and    *)
(* the effect has not run yet; React runs it before it handles the next    *)
(* event.  setRaceTitle and setRaceDescription are presentation state and  *)
(* are left out.                                                           *)
(***************************************************************************)
MaxReads == 2

MaxNamed == 1

haversineDistance(lat1, lon1, lat2, lon2) == Abs(lat2 - lat1)

RECURSIVE sumEle(_, _, _)
sumEle(pts, j, last) ==
  IF j > last THEN 0 ELSE pts[j].ele + sumEle(pts, j + 1, last)

Max(a, b) == IF a >= b THEN a ELSE b

Min(a, b) == IF a <= b THEN a ELSE b

smoothElevation_trailing(pts, windowSize) ==
  [x \in 1..Len(pts) |->
     LET first == Max(1, x - windowSize)
     IN  [pts[x] EXCEPT !.ele = sumEle(pts, first, x) \div (x - first + 1)]]

\* indices are 1-based: the window of the point x is x - windowSize ..
\* x + windowSize, cut at the ends of the sequence
smoothElevation(pts, windowSize) ==
  [x \in 1..Len(pts) |->
     LET first == Max(1, x - windowSize)
         last == Min(Len(pts), x + windowSize)
         count == last - first + 1
     IN  [pts[x] EXCEPT !.ele = sumEle(pts, first, last) \div count]]

\* parseFloat(... ?.textContent || 0)
eleOf(trkpt) == IF trkpt.ele = <<>> THEN 0 ELSE trkpt.ele[1]

rawPointsOf(trkpts) ==
  [x \in 1..Len(trkpts) |->
     [lat |-> trkpts[x].lat, lon |-> trkpts[x].lon, ele |-> eleOf(trkpts[x])]]

\* the running total after the point x
RECURSIVE totalDistAt(_, _)
totalDistAt(rawPoints, x) ==
  IF x <= 1 THEN 0
  ELSE totalDistAt(rawPoints, x - 1)
       + haversineDistance(rawPoints[x - 1].lat, rawPoints[x - 1].lon,
                           rawPoints[x].lat, rawPoints[x].lon)

pointsWithDist(rawPoints) ==
  [x \in 1..Len(rawPoints) |->
     [lat |-> rawPoints[x].lat, lon |-> rawPoints[x].lon,
      ele |-> rawPoints[x].ele, dist |-> totalDistAt(rawPoints, x)]]

SMOOTH_WINDOW == 3

noTrackPoints_never(trkpts) == FALSE

\* trkpts.length === 0
noTrackPoints(trkpts) == Len(trkpts) = 0

\* what processGPX hands to setBaseData for a text with track points
baseDataOf(trkpts) ==
  LET rawPoints == rawPointsOf(trkpts)
  IN  [points |-> smoothElevation(pointsWithDist(rawPoints), SMOOTH_WINDOW),
       distance |-> totalDistAt(rawPoints, Len(rawPoints))]

\* analyzeRoute as one call: the for loop, the forEach and the result
RECURSIVE chunksOf(_, _, _)
chunksOf(pts, x, acc) ==
  IF x > Len(pts) THEN acc
  ELSE LET j == scanJ(pts, x, x + 1)
       IN  IF j <= Len(pts)
           THEN chunksOf(pts, j, Append(acc, makeChunk(pts[x], pts[j])))
           ELSE chunksOf(pts, x + 1, acc)

RECURSIVE climbsOf(_, _, _, _)
climbsOf(chs, x, cl, cur) ==
  IF x > Len(chs) THEN flush(cl, cur)
  ELSE LET r == aggregate(cl, cur, chs[x])
       IN  climbsOf(chs, x + 1, r[1], r[2])

analyzeRoute(pts, total) ==
  analysisOf(pts, total, climbsOf(chunksOf(pts, 1, <<>>), 1, <<>>, <<>>))

effectOf_baseDistance(base, n) ==
  analyzeRoute(fullPoints(base, n, 0), base.distance)

\* the body of the effect for a base track: the record given to setFileData
effectOf(base, n) == analyzeRoute(fullPoints(base, n, 0), base.distance * n)

decreaseLaps_unclamped(n) == n - 1

decreaseLaps(n) == Max(1, n - 1)

increaseLaps(n) == n + 1

updateClimbNameOf_oneBased(prev, index, value) ==
  [prev EXCEPT !.climbs =
     [x \in 1..Len(prev.climbs) |->
        IF x = index THEN [prev.climbs[x] EXCEPT !.name = value]
        ELSE prev.climbs[x]]]

\* the updater given to setFileData by updateClimbName; index is 0-based
updateClimbNameOf(prev, index, value) ==
  IF index >= 0 /\ index < Len(prev.climbs)
  THEN [prev EXCEPT !.climbs[index + 1].name = value]
  ELSE prev

TrkPt(lat, ele) == [lat |-> lat, lon |-> 0, ele |-> ele]

EmptyGpx == [gpx |-> TRUE, text |-> <<>>]

OnePointGpx == [gpx |-> TRUE, text |-> << TrkPt(0, <<100>>) >>]

SamePlaceGpx ==
  [gpx |-> TRUE, text |-> << TrkPt(7, <<40>>), TrkPt(7, <<>>) >>]

TwoClimbsGpx ==
  [gpx |-> TRUE,
   text |-> << TrkPt(0, <<0>>), TrkPt(50, <<0>>), TrkPt(100, <<0>>),
               TrkPt(150, <<0>>), TrkPt(200, <<2100>>) >>]

\* level for 45 km, then 5 percent for 5 km up to the finish
ScenarioBGpx ==
  [gpx |-> TRUE,
   text |-> << TrkPt(0, <<0>>), TrkPt(450, <<0>>), TrkPt(460, <<50>>),
               TrkPt(500, <<250>>) >>]

\* its smoothed elevations are 0, 0, 0, 0, 250
SmoothedBGpx ==
  [gpx |-> TRUE,
   text |-> << TrkPt(0, <<-1000>>), TrkPt(150, <<0>>), TrkPt(300, <<0>>),
               TrkPt(450, <<1000>>), TrkPt(500, <<0>>) >>]

\* eight points, so that the windows of the middle points are not cut
LongGpx ==
  [gpx |-> TRUE,
   text |-> << TrkPt(0, <<0>>), TrkPt(100, <<0>>), TrkPt(200, <<420>>),
               TrkPt(300, <<0>>), TrkPt(400, <<840>>), TrkPt(500, <<420>>),
               TrkPt(600, <<1260>>), TrkPt(700, <<0>>) >>]

\* the same elevations with a sample 0.1 km before the foot of the ascent
UnalignedBGpx ==
  [gpx |-> TRUE,
   text |-> << TrkPt(0, <<-1000>>), TrkPt(300, <<0>>), TrkPt(449, <<0>>),
               TrkPt(450, <<1000>>), TrkPt(500, <<0>>) >>]

NotGpx == [gpx |-> FALSE, text |-> TwoClimbsGpx.text]

Files == {EmptyGpx, OnePointGpx, SamePlaceGpx, TwoClimbsGpx, ScenarioBGpx,
          SmoothedBGpx, UnalignedBGpx, LongGpx, NotGpx}

Names == {"", "Col"}

analysisVars == <<pc, points, totalDistance, i, chunks, k, climbs, currentClimb>>

localVars == <<points, totalDistance, i, chunks, k, climbs, currentClimb>>

Init ==
  /\ fileData = <<>>
  /\ baseData = <<>>
  /\ laps = 1
  /\ isProcessing = FALSE
  /\ reading = <<>>
  /\ pc = "idle"
  /\ points = <<>>
  /\ totalDistance = 0
  /\ i = 1
  /\ chunks = <<>>
  /\ k = 1
  /\ climbs = <<>>
  /\ currentClimb = <<>>

\* reading holds the FileReaders in the order of their creation, each with
\* its text and readyState; they are forgotten when none is loading any more
Loading == {r \in 1..Len(reading) : reading[r].readyState = "LOADING"}

\* handleFile, from the drop zone or the file input shown while there is no
\* result
HandleFile(file) ==
  /\ pc = "idle"
  /\ fileData = <<>>
  /\ Len(reading) < MaxReads
  /\ IF ~file.gpx
     THEN /\ isProcessing' = FALSE
          /\ reading' = reading
     ELSE /\ isProcessing' = TRUE
          /\ reading' = Append(reading, [text |-> file.text,
                                         readyState |-> "LOADING"])
  /\ UNCHANGED <<baseData, laps, fileData, analysisVars>>

ReaderOnload_keepLaps(r) ==
  /\ pc = "idle"
  /\ r \in Loading
  /\ reading' = IF Loading = {r} THEN <<>>
                ELSE [reading EXCEPT ![r].readyState = "DONE"]
  /\ isProcessing' = FALSE
  /\ IF noTrackPoints(reading[r].text)
     THEN UNCHANGED <<baseData, laps, pc>>
     ELSE /\ laps' = laps
          /\ baseData' = << baseDataOf(reading[r].text) >>
          /\ pc' = "effect"
  /\ UNCHANGED <<fileData, localVars>>

\* reader.onload of the r-th reader: processGPX
ReaderOnload(r) ==
  /\ pc = "idle"
  /\ r \in Loading
  /\ reading' = IF Loading = {r} THEN <<>>
                ELSE [reading EXCEPT ![r].readyState = "DONE"]
  /\ isProcessing' = FALSE
  /\ IF noTrackPoints(reading[r].text)
     THEN UNCHANGED <<baseData, laps, pc>>
     ELSE /\ laps' = 1
          /\ baseData' = << baseDataOf(reading[r].text) >>
          /\ pc' = "effect"
  /\ UNCHANGED <<fileData, localVars>>

DecreaseLapsButton_alwaysEffect ==
  /\ pc = "idle"
  /\ fileData # <<>>
  /\ laps' = decreaseLaps(laps)
  /\ pc' = "effect"
  /\ UNCHANGED <<baseData, fileData, localVars, readVars>>

\* the lap buttons, shown with the result
DecreaseLapsButton ==
  /\ pc = "idle"
  /\ fileData # <<>>
  /\ laps' = decreaseLaps(laps)
  /\ pc' = IF laps' # laps THEN "effect" ELSE pc
  /\ UNCHANGED <<baseData, fileData, localVars, readVars>>

IncreaseLapsButton ==
  /\ pc = "idle"
  /\ fileData # <<>>
  /\ laps < MaxLaps
  /\ laps' = increaseLaps(laps)
  /\ pc' = IF laps' # laps THEN "effect" ELSE pc
  /\ UNCHANGED <<baseData, fileData, localVars, readVars>>

UpdateClimbName(index, value) ==
  /\ pc = "idle"
  /\ fileData # <<>>
  /\ (value # "" =>
        Cardinality({x \in 1..Len(fileData[1].climbs) :
                       fileData[1].climbs[x].name # ""}) < MaxNamed)
  /\ fileData' = << updateClimbNameOf(fileData[1], index, value) >>
  /\ UNCHANGED <<baseData, laps, analysisVars, readVars>>

NewAnalysis ==
  /\ pc = "idle"
  /\ fileData # <<>>
  /\ fileData' = <<>>
  /\ UNCHANGED <<baseData, laps, analysisVars, readVars>>

UseEffect_rejectZero ==
  /\ pc = "effect"
  /\ pc' = "idle"
  /\ IF baseData = <<>> \/ baseData[1].distance = 0
     THEN fileData' = fileData
     ELSE fileData' = << effectOf(baseData[1], laps) >>
  /\ UNCHANGED <<baseData, laps, localVars, readVars>>

UseEffect_onceOnly ==
  /\ pc = "effect"
  /\ pc' = "idle"
  /\ IF baseData = <<>> \/ fileData # <<>>
     THEN fileData' = fileData
     ELSE fileData' = << effectOf(baseData[1], laps) >>
  /\ UNCHANGED <<baseData, laps, localVars, readVars>>

\* useEffect on [baseData, laps], with the whole of analyzeRoute
UseEffect ==
  /\ pc = "effect"
  /\ pc' = "idle"
  /\ IF baseData = <<>>
     THEN fileData' = fileData
     ELSE fileData' = << effectOf(baseData[1], laps) >>
  /\ UNCHANGED <<baseData, laps, localVars, readVars>>

\* the indices of the rows shown, which are the ones the table passes, and
\* one on either side for the index check of updateClimbName
RenameIndices ==
  IF fileData = <<>> THEN {} ELSE -1..Len(fileData[1].climbs)

Next ==
  \/ \E file \in Files : HandleFile(file)
  \/ \E r \in 1..MaxReads : ReaderOnload(r)
  \/ DecreaseLapsButton
  \/ IncreaseLapsButton
  \/ \E index \in RenameIndices, value \in Names :
       UpdateClimbName(index, value)
  \/ NewAnalysis
  \/ UseEffect

Spec == Init /\ [][Next]_vars


(***************************************************************************)
(* Vocabulary of the properties.  These are written on the values alone    *)
(* (indices, cross-multiplied fractions), not with the operators above.    *)
(***************************************************************************)
\* gradient > 1.5 percent
Above15(g) == 2 * g.n > 3 * g.d

\* equality of two fractions
SameNumber(a, b) == a.n * b.d = b.n * a.d

Result == fileData[1]

Analysed == pc = "done"

\* the open segment, if any, followed by nothing else, and the closed ones
Segments == {climbs[s] : s \in 1..Len(climbs)}
              \cup {currentClimb[s] : s \in 1..Len(currentClimb)}

\* C1: in Climbing, the very next chunk with gradient <= 1.5 (1.5 included)
\* closes and emits the open segment and the state returns to Flat; in Flat,
\* an uphill chunk opens a new segment of its own; no segment ever holds a
\* chunk with gradient <= 1.5; two uphill chunks with one non-uphill chunk
\* between them lie in two different segments.
C1_ClosesOnCase ==
  (pc = "aggregate" /\ k <= Len(chunks) /\ currentClimb # <<>>
     /\ ~Above15(chunks[k].gradient))
  => /\ currentClimb' = <<>>
     /\ climbs' = Append(climbs, currentClimb[1])

C1_OpensOnCase ==
  (pc = "aggregate" /\ k <= Len(chunks) /\ currentClimb = <<>>
     /\ Above15(chunks[k].gradient))
  => /\ climbs' = climbs
     /\ Len(currentClimb') = 1
     /\ currentClimb'[1].chunks = <<chunks[k]>>
     /\ currentClimb'[1].startDist = chunks[k].startDist

C1_NoFlatChunkInside ==
  \A c \in Segments : \A x \in 1..Len(c.chunks) : Above15(c.chunks[x].gradient)

C1_DipSeparates ==
  Analysed =>
    \A x \in 2..(Len(chunks) - 1) :
      (Above15(chunks[x - 1].gradient) /\ ~Above15(chunks[x].gradient)
         /\ Above15(chunks[x + 1].gradient))
      => \E s \in 1..(Len(climbs) - 1) :
           /\ climbs[s].endDist = chunks[x - 1].endDist
           /\ climbs[s + 1].startDist = chunks[x + 1].startDist

C1_ClosesImmediately ==
  /\ [](C1_NoFlatChunkInside /\ C1_DipSeparates)
  /\ [][C1_ClosesOnCase /\ C1_OpensOnCase]_vars

\* two uphill chunks around a chunk of exactly 1.5 percent, analysed
C1_Witness ==
  /\ Analysed
  /\ Len(climbs) >= 2
  /\ \E x \in 2..(Len(chunks) - 1) :
       /\ Above15(chunks[x - 1].gradient)
       /\ SameNumber(chunks[x].gradient, [n |-> 3, d |-> 2])
       /\ Above15(chunks[x + 1].gradient)

\* the chunks a..b of the course are one maximal run of uphill chunks
MaximalRun(a, b) ==
  /\ 1 <= a /\ a <= b /\ b <= Len(chunks)
  /\ \A x \in a..b : Above15(chunks[x].gradient)
  /\ (a = 1 \/ ~Above15(chunks[a - 1].gradient))
  /\ (b = Len(chunks) \/ ~Above15(chunks[b + 1].gradient))

RECURSIVE GainOfRun(_, _)
GainOfRun(a, b) == IF a > b THEN 0 ELSE chunks[a].gain + GainOfRun(a + 1, b)

\* the number of maximal runs that start before chunk x
RunsBefore(x) ==
  Cardinality({a \in 1..(x - 1) :
                 Above15(chunks[a].gradient)
                 /\ (a = 1 \/ ~Above15(chunks[a - 1].gradient))})

\* C2: the segments emitted by the detector (before the gain filter) are
\* exactly the maximal runs of consecutive chunks with gradient > 1.5, in
\* course order, the run that reaches the last chunk included; a segment
\* starts where its first chunk starts, ends where its last chunk ends and
\* gains the sum of its chunks' gains; every uphill chunk is in exactly one.
C2_SegmentsAreMaximalRuns ==
  Analysed =>
    /\ Len(climbs) = RunsBefore(Len(chunks) + 1)
    /\ \A a \in 1..Len(chunks) : \A b \in a..Len(chunks) :
         MaximalRun(a, b) =>
           LET seg == climbs[RunsBefore(a) + 1]
           IN  /\ seg.startDist = chunks[a].startDist
               /\ seg.endDist = chunks[b].endDist
               /\ seg.gain = GainOfRun(a, b)
               /\ seg.chunks = SubSeq(chunks, a, b)
    /\ \A x \in 1..Len(chunks) :
         Above15(chunks[x].gradient) =>
           Cardinality({s \in 1..Len(climbs) :
                          \E y \in 1..Len(climbs[s].chunks) :
                            climbs[s].chunks[y].startDist = chunks[x].startDist})
             = 1

\* two runs, the second of several chunks and reaching the last chunk
C2_Witness ==
  /\ Analysed
  /\ Len(climbs) >= 2
  /\ \E a \in 1..(Len(chunks) - 1) : MaximalRun(a, Len(chunks))

\* C3: chunking is one forward pass.  A chunk emitted from point i ends at
\* the smallest j > i at least 0.2 km away and the next iteration starts at
\* that j; the first chunk starts at the first point; consecutive chunks are
\* back to back and none overlaps; once the scan from i runs past the last
\* point no chunk is emitted any more; and the index grows with every
\* iteration up to the end of the points, so the loop ends.
EndOfChunkFrom(a, j) ==
  /\ a < j /\ j <= Len(points)
  /\ points[j].dist - points[a].dist >= 2
  /\ \A m \in (a + 1)..(j - 1) : points[m].dist - points[a].dist < 2

RunsOut(a) == \A j \in (a + 1)..Len(points) : points[j].dist - points[a].dist < 2

C3_StepCase ==
  (pc = "chunk" /\ i <= Len(points)) =>
    /\ i' > i /\ i' <= Len(points) + 1
    /\ \/ /\ RunsOut(i)
          /\ chunks' = chunks
       \/ /\ EndOfChunkFrom(i, i')
          /\ Len(chunks') = Len(chunks) + 1
          /\ SubSeq(chunks', 1, Len(chunks)) = chunks
          /\ chunks'[Len(chunks')].startDist = points[i].dist
          /\ chunks'[Len(chunks')].endDist = points[i'].dist
          /\ (chunks = <<>> => i = 1)

C3_BackToBack ==
  /\ \A x \in 1..Len(chunks) : chunks[x].startDist < chunks[x].endDist
  /\ \A x \in 1..(Len(chunks) - 1) : chunks[x].endDist = chunks[x + 1].startDist
  /\ (pc = "chunk" /\ i <= Len(points) /\ chunks # <<>> /\ ~RunsOut(i))
       => chunks[Len(chunks)].endDist = points[i].dist

C3_NoChunkAfterRunOut ==
  \A a \in 1..Len(points) : RunsOut(a) => \A b \in a..Len(points) : RunsOut(b)

C3_SingleForwardPass ==
  /\ [](C3_BackToBack /\ C3_NoChunkAfterRunOut)
  /\ [][C3_StepCase]_vars

\* several chunks, one of them over more than one point step, and the scan
\* has run past the last point
C3_Witness ==
  /\ pc = "aggregate"
  /\ Len(chunks) >= 2
  /\ Len(points) > Len(chunks) + 2
  /\ points[Len(points)].dist > chunks[Len(chunks)].endDist

\* C4: every emitted chunk is at least 0.2 km long, also on multi-lap
\* sequences with the same distance twice at a lap boundary; and what is left
\* of the course after the last chunk is shorter than 0.2 km.
C4_ChunkAtLeastChunkSize ==
  /\ \A x \in 1..Len(chunks) : chunks[x].endDist - chunks[x].startDist >= 2
  /\ pc \in {"aggregate", "done"} =>
       IF chunks = <<>> THEN points[Len(points)].dist - points[1].dist < 2
       ELSE /\ points[Len(points)].dist - chunks[Len(chunks)].endDist < 2
            /\ points[Len(points)].dist - chunks[Len(chunks)].endDist >= 0

\* two laps, a chunk that runs over the two points of equal distance at the
\* lap boundary, and a remainder of 0.1 km after the last chunk
C4_Witness ==
  /\ Analysed
  /\ laps = 2
  /\ \E x \in 1..Len(chunks) :
       /\ chunks[x].startDist < baseData[1].distance
       /\ chunks[x].endDist > baseData[1].distance
  /\ points[Len(points)].dist - chunks[Len(chunks)].endDist = 1

\* C5: every climb of the result gains more than 20 m; a detected segment
\* gaining 20 m or less is not in the result; every detected segment gaining
\* more than 20 m is.
Kept == {s \in 1..Len(climbs) : climbs[s].gain > 20}

C5_GainFilter ==
  Analysed =>
    /\ \A x \in 1..Len(Result.climbs) : Result.climbs[x].gain > 20
    /\ Len(Result.climbs) = Cardinality(Kept)
    /\ \A s \in Kept :
         \E x \in 1..Len(Result.climbs) :
           /\ Result.climbs[x].startDist = climbs[s].startDist
           /\ Result.climbs[x].endDist = climbs[s].endDist
           /\ Result.climbs[x].gain = climbs[s].gain
    /\ \A s \in (1..Len(climbs)) \ Kept :
         \A x \in 1..Len(Result.climbs) :
           Result.climbs[x].startDist # climbs[s].startDist

\* a segment of exactly 20 m dropped and a segment of 21 m kept
C5_Witness ==
  /\ Analysed
  /\ \E s \in 1..Len(climbs) : climbs[s].gain = 20
  /\ \E s \in 1..Len(climbs) : climbs[s].gain = 21
  /\ Len(Result.climbs) = Len(climbs) - 1

\* C6: the positional multiplier of every climb is the step function of
\* distFromFinish = totalDistance - endDistance: 1.0 up to 10 km, 0.8 up to
\* 25 km, 0.6 up to 50 km, 0.4 up to 75 km, 0.2 beyond, the boundaries 10,
\* 25, 50 and 75 km taking the higher value; it never grows with the
\* distance from the finish; and finalScore = rawScore * positionMultiplier.
TenthsOfMultiplier(d) ==
  CASE d <= 100 -> 10
    [] d > 100 /\ d <= 250 -> 8
    [] d > 250 /\ d <= 500 -> 6
    [] d > 500 /\ d <= 750 -> 4
    [] d > 750 -> 2

C6_PositionMultiplier ==
  Analysed =>
    /\ \A x \in 1..Len(Result.climbs) :
         LET c == Result.climbs[x]
         IN  /\ c.distFromFinish = Result.totalDistance - c.endDist
             /\ c.multiplier.n * 10
                  = TenthsOfMultiplier(c.distFromFinish) * c.multiplier.d
             /\ c.finalScore.n * c.rawScore.d * c.multiplier.d
                  = c.rawScore.n * c.multiplier.n * c.finalScore.d
    /\ \A x, y \in 1..Len(Result.climbs) :
         Result.climbs[x].distFromFinish <= Result.climbs[y].distFromFinish
           => Result.climbs[y].multiplier.n * Result.climbs[x].multiplier.d
                <= Result.climbs[x].multiplier.n * Result.climbs[y].multiplier.d

\* a climb whose summit is exactly 75 km from the finish
C6_Witness ==
  /\ Analysed
  /\ \E x \in 1..Len(Result.climbs) :
       /\ Result.climbs[x].distFromFinish = 750
       /\ Result.climbs[x].rawScore.n > 0

\* C7: the climb weighting ratio is overallScore / totalDistance on a course
\* with 0 < totalDistance < 20 km and max(overallScore / 100,
\* min(finalZoneScore / 25, 0.8)) otherwise, a course of exactly 20 km
\* included; climbWeightingPercent = min(ratio * 100, 100) in both cases.
ShortCourseRatio == RDiv(Result.totalScore, Rat(Result.totalDistance, 10))

LongCourseRatio ==
  LET overall == RDiv(Result.totalScore, RInt(100))
      zone == RDiv(Result.finalProfileScore, RInt(25))
      capped == IF RLt(Rat(4, 5), zone) THEN Rat(4, 5) ELSE zone
  IN  IF RLt(overall, capped) THEN capped ELSE overall

PercentOf(ratio) ==
  LET p == RMul(ratio, RInt(100))
  IN  IF RLt(RInt(100), p) THEN RInt(100) ELSE p

C7_WeightingBranches ==
  Analysed =>
    SameNumber(Result.tpvClimbWeighting,
               IF 0 < Result.totalDistance /\ Result.totalDistance < 200
               THEN PercentOf(ShortCourseRatio)
               ELSE PercentOf(LongCourseRatio))

\* a course of exactly 20 km on which the two rules give different values
C7_Witness ==
  /\ Analysed
  /\ Result.totalDistance = 200
  /\ ~SameNumber(PercentOf(ShortCourseRatio), PercentOf(LongCourseRatio))

\* C8: every analysis of a non-empty track with laps >= 1 carries a
\* climbWeightingPercent between 0 and 100.
C8_WeightingInRange ==
  Analysed =>
    /\ Result.tpvClimbWeighting.d > 0
    /\ Result.tpvClimbWeighting.n >= 0
    /\ Result.tpvClimbWeighting.n <= 100 * Result.tpvClimbWeighting.d

\* a short course whose ratio is above 1, so that the cap at 100 acts
C8_Witness ==
  /\ Analysed
  /\ Result.totalDistance > 0 /\ Result.totalDistance < 200
  /\ RLt(RInt(1), ShortCourseRatio)
  /\ SameNumber(Result.tpvClimbWeighting, RInt(100))

\* C9: overallScore is the sum of finalScore over the climbs of the result;
\* finalZoneScore is the sum of finalScore over exactly the climbs with
\* endDistance >= totalDistance - 25 km, a climb ending exactly 25 km from
\* the finish included.
RECURSIVE SumOver(_, _)
SumOver(x, zoneOnly) ==
  IF x = 0 THEN RInt(0)
  ELSE LET c == Result.climbs[x]
       IN  IF zoneOnly /\ c.endDist < Result.totalDistance - 250
           THEN SumOver(x - 1, zoneOnly)
           ELSE RAdd(c.finalScore, SumOver(x - 1, zoneOnly))

C9_ScoreSums ==
  Analysed =>
    /\ SameNumber(Result.totalScore, SumOver(Len(Result.climbs), FALSE))
    /\ SameNumber(Result.finalProfileScore, SumOver(Len(Result.climbs), TRUE))

\* one climb ending exactly 25 km from the finish and one ending before
C9_Witness ==
  /\ Analysed
  /\ \E x, y \in 1..Len(Result.climbs) :
       /\ Result.climbs[x].endDist = Result.totalDistance - 250
       /\ Result.climbs[y].endDist < Result.totalDistance - 250
  /\ RLt(Result.finalProfileScore, Result.totalScore)

\* C10: the climbs of a result do not overlap and are ordered: each ends no
\* later than the next starts, and starts before the next starts.
C10_ClimbsOrdered ==
  Analysed =>
    \A x \in 1..(Len(Result.climbs) - 1) :
      /\ Result.climbs[x].endDist <= Result.climbs[x + 1].startDist
      /\ Result.climbs[x].startDist < Result.climbs[x + 1].startDist

\* a result with three climbs
C10_Witness ==
  /\ Analysed
  /\ Len(Result.climbs) >= 3

\* C11: for every laps N >= 1 the full-course points are N copies of the
\* base points in lap order, the copy of lap index l with every distance
\* raised by l * baseDistance and the elevation (and position) unchanged;
\* totalDistance = N * baseDistance; the first len(base) points are the
\* 1-lap points; the distances never decrease and start at 0.
Expanded == pc \in {"chunk", "aggregate", "done"}

Base == baseData[1]

C11_LapExpansion ==
  Expanded =>
    LET n == Len(Base.points)
    IN  /\ Len(points) = laps * n
        /\ \A l \in 0..(laps - 1) : \A x \in 1..n :
             LET p == points[l * n + x]
             IN  /\ p.dist = Base.points[x].dist + l * Base.distance
                 /\ p.ele = Base.points[x].ele
                 /\ p.lat = Base.points[x].lat
                 /\ p.lon = Base.points[x].lon
        /\ totalDistance = laps * Base.distance
        /\ SubSeq(points, 1, n) = Base.points
        /\ points[1].dist = 0
        /\ \A x \in 1..(Len(points) - 1) : points[x].dist <= points[x + 1].dist

\* two laps of a track of several points and of positive length, expanded
C11_Witness ==
  /\ Expanded
  /\ laps >= 2
  /\ Len(Base.points) >= 3
  /\ Base.distance > 0
  /\ points[Len(points)].dist = 2 * Base.distance

\* C20: climb ids are the 1-based rank by ascending start distance: the
\* climbs of a result are sorted by startDist and the climb at 0-based list
\* position x has id x + 1, so the ids are 1..n without gap or repeat, also
\* when the gain filter removed segments.
C20_IdsAreRanks ==
  Analysed =>
    /\ \A x \in 1..Len(Result.climbs) : Result.climbs[x].id = x
    /\ \A x, y \in 1..Len(Result.climbs) :
         x < y => Result.climbs[x].startDist < Result.climbs[y].startDist
    /\ {Result.climbs[x].id : x \in 1..Len(Result.climbs)}
         = 1..Len(Result.climbs)

\* a dropped segment lies before a kept one, and two climbs are kept
C20_Witness ==
  /\ Analysed
  /\ Len(Result.climbs) >= 2
  /\ \E s \in 1..Len(climbs) :
       /\ climbs[s].gain <= 20
       /\ climbs[s].startDist < Result.climbs[Len(Result.climbs)].startDist

(***************************************************************************)
(* Properties of the component.                                            *)
(***************************************************************************)
Settled == pc = "idle" /\ fileData # <<>>

AllNamesEmpty(result) ==
  \A x \in 1..Len(result.climbs) : result.climbs[x].name = ""

\* C12: whenever laps or the base track changes the effect is due; when it
\* has run, the stored result has the points of the base track expanded
\* afresh, totalDistance = baseData.distance * laps, the climbs of that run
\* and only empty names; in every settled state the total distance of the
\* result is baseData.distance * laps.
C12_RecomputationWholesale ==
  /\ [](Settled => /\ baseData # <<>>
                    /\ Result.totalDistance = Base.distance * laps)
  /\ [][ /\ (laps' # laps \/ baseData' # baseData) => pc' = "effect"
         /\ (pc = "effect" /\ pc' = "idle" /\ baseData # <<>>) =>
              /\ fileData' # <<>>
              /\ fileData'[1].points = fullPoints(Base, laps, 0)
              /\ fileData'[1].totalDistance = Base.distance * laps
              /\ fileData'[1].climbs =
                   validClimbsOf(climbsOf(chunksOf(fileData'[1].points, 1, <<>>),
                                          1, <<>>, <<>>),
                                 Base.distance * laps)
              /\ AllNamesEmpty(fileData'[1]) ]_vars

C12_Witness ==
  /\ Settled
  /\ laps = 2
  /\ Len(Result.climbs) >= 3
  /\ Result.totalDistance = 2 * Base.distance
  /\ AllNamesEmpty(Result)

\* C13: when the onload of a text without track points runs, no analysis is
\* started (no effect becomes due), baseData, laps and the stored result
\* stay as they were, and the processing flag is cleared.
C13_EmptyTextIgnored ==
  [][ \A r \in 1..Len(reading) :
        (ReaderOnload(r) /\ Len(reading[r].text) = 0) =>
          /\ baseData' = baseData
          /\ laps' = laps
          /\ fileData' = fileData
          /\ pc' = "idle"
          /\ isProcessing' = FALSE ]_vars

C13_Witness ==
  /\ Settled
  /\ laps = 2
  /\ \E r \in Loading : Len(reading[r].text) = 0

ZeroDistance == baseData # <<>> /\ Base.distance = 0

\* C14 as stated: a base track of total distance zero never has a stored
\* result.
C14_ZeroDistanceHasNoResult == Settled => ~ZeroDistance

\* C14, amended: when the effect runs for a base track of total distance
\* zero, the analysis completes and a result of total distance 0 is stored,
\* with the expanded points and an overall metric and final zone metric of
\* 0 (the divisions by the distance are guarded).
C14_ZeroDistanceIsStored ==
  [][ (pc = "effect" /\ pc' = "idle" /\ ZeroDistance) =>
        /\ fileData' # <<>>
        /\ fileData'[1].totalDistance = 0
        /\ Len(fileData'[1].points) = laps * Len(Base.points)
        /\ SameNumber(fileData'[1].overallMetric, RInt(0))
        /\ SameNumber(fileData'[1].finalZoneMetric, RInt(0)) ]_vars

C14_Witness ==
  /\ Settled
  /\ ZeroDistance
  /\ Len(Base.points) >= 2
  /\ Result.totalDistance = 0

\* C15: for a base track of one point, or of total distance zero, and every
\* number of laps, the analysis completes with no climbs, a total score of
\* 0 and a climb weighting of 0.
C15_TrivialCourse ==
  (Analysed /\ (Len(Base.points) = 1 \/ Base.distance = 0)) =>
    /\ fileData # <<>>
    /\ Result.climbs = <<>>
    /\ SameNumber(Result.totalScore, RInt(0))
    /\ SameNumber(Result.tpvClimbWeighting, RInt(0))

C15_Witness ==
  /\ Analysed
  /\ laps >= 2
  /\ Base.distance = 0
  /\ Len(Base.points) >= 3
  /\ Result.totalClimbing > 0
  /\ Result.climbs = <<>>

\* C16: laps is an integer of at least 1 in every reachable state, and the
\* decrease button keeps it so: at laps = 1 it gives 1.
C16_LapsAtLeastOne ==
  /\ laps \in Nat
  /\ laps >= 1
  /\ decreaseLaps(laps) >= 1
  /\ (laps = 1 => decreaseLaps(laps) = 1)

C16_Witness ==
  /\ laps = 2
  /\ pc = "idle"
  /\ fileData = <<>>
  /\ baseData # <<>>

BlankNames(result) ==
  [result EXCEPT !.climbs =
     [x \in 1..Len(result.climbs) |-> [result.climbs[x] EXCEPT !.name = ""]]]

\* C17: the base track changes only when an upload completes, never by a
\* lap change, a rename, New Analysis or the effect; and in every settled
\* state the result, its climb names blanked, is the analysis of
\* (baseData, laps), however the state was reached.
C17_PureFunctionOfBaseAndLaps ==
  /\ [](Settled =>
          /\ baseData # <<>>
          /\ SubSeq(Result.points, 1, Len(Base.points)) = Base.points
          /\ BlankNames(Result) =
               analyzeRoute(fullPoints(Base, laps, 0), Base.distance * laps))
  /\ [][ baseData' # baseData => \E r \in 1..Len(reading) : ReaderOnload(r) ]_vars

C17_Witness ==
  /\ Settled
  /\ laps = 2
  /\ Len(Result.climbs) >= 3
  /\ Result.climbs[2].name # ""
  /\ Result.climbs[1].name = ""

\* C18: updateClimbName(index, value) leaves baseData, laps and the reads
\* alone and makes no effect due; of the result it changes the name of the
\* climb at the index and nothing else, and nothing at all when the index
\* is outside 0 .. climbs.length - 1.
C18_RenameOnly ==
  [][ \A index \in RenameIndices, value \in Names :
        UpdateClimbName(index, value) =>
          LET old == fileData[1]
              new == fileData'[1]
          IN  /\ UNCHANGED <<baseData, laps, pc, readVars>>
              /\ \A f \in (DOMAIN old) \ {"climbs"} : new[f] = old[f]
              /\ Len(new.climbs) = Len(old.climbs)
              /\ \A x \in 1..Len(old.climbs) :
                   /\ \A g \in (DOMAIN old.climbs[x]) \ {"name"} :
                        new.climbs[x][g] = old.climbs[x][g]
                   /\ new.climbs[x].name =
                        IF x = index + 1 THEN value ELSE old.climbs[x].name
              /\ (index < 0 \/ index >= Len(old.climbs)) =>
                   new.climbs = old.climbs ]_vars

C18_Witness ==
  /\ Settled
  /\ Len(Result.climbs) >= 2
  /\ Result.climbs[Len(Result.climbs)].name = "Col"
  /\ Result.climbs[1].name = ""

\* a course of 50 km, level up to a sample at 45 km and from there rising,
\* never falling, by 250 m to the finish
ScenarioB(pts) ==
  /\ pts[1].dist = 0
  /\ pts[Len(pts)].dist = Km(50)
  /\ \E s \in 1..(Len(pts) - 1) :
       /\ pts[s].dist = Km(45)
       /\ \A x \in 1..s : pts[x].ele = pts[1].ele
       /\ \A x \in s..(Len(pts) - 1) : pts[x].ele <= pts[x + 1].ele
       /\ pts[Len(pts)].ele - pts[s].ele = 250

\* a chunk starts at the 45 km sample and every chunk from there is steeper
\* than 1.5 percent
ScenarioBChunks(pts) ==
  LET chs == chunksOf(pts, 1, <<>>)
  IN  /\ \E c \in 1..Len(chs) : chs[c].startDist = Km(45)
      /\ chs[Len(chs)].endDist = Km(50)
      /\ \A c \in 1..Len(chs) :
           chs[c].startDist >= Km(45) => Above15(chs[c].gradient)

ScenarioBResult(result, score) ==
  /\ Len(result.climbs) = 1
  /\ SameNumber(result.climbs[1].gradientAvg, RInt(5))
  /\ SameNumber(result.climbs[1].rawScore, score)
  /\ SameNumber(result.climbs[1].multiplier, RInt(1))
  /\ SameNumber(result.climbs[1].finalScore, score)
  /\ SameNumber(result.totalScore, score)
  /\ SameNumber(result.tpvClimbWeighting, RInt(80))

RECURSIVE EleSum(_, _)
EleSum(pts, W) ==
  IF W = {} THEN 0
  ELSE LET j == CHOOSE j \in W : TRUE
       IN  pts[j].ele + EleSum(pts, W \ {j})

\* C21: the points stored by an upload are as many as the track points read
\* and in their order; the elevation of each is the arithmetic mean of the
\* elevations read at the indices within 3 of its own, cut at the ends of the
\* sequence; latitude, longitude and cumulative distance are as read.
C21_Smoothing ==
  [][ \A r \in Loading :
        (ReaderOnload(r) /\ Len(reading[r].text) > 0) =>
          LET raw == pointsWithDist(rawPointsOf(reading[r].text))
              out == baseData'[1].points
              n == Len(raw)
          IN  /\ Len(out) = n
              /\ \A x \in 1..n :
                   LET W == {j \in 1..n : j >= x - 3 /\ j <= x + 3}
                   IN  /\ out[x].lat = raw[x].lat
                       /\ out[x].lon = raw[x].lon
                       /\ out[x].dist = raw[x].dist
                       /\ Cardinality(W) * out[x].ele = EleSum(raw, W) ]_vars

C21_Witness ==
  /\ baseData # <<>>
  /\ Len(Base.points) >= 8
  /\ Base.points[3].ele # Base.points[4].ele
  /\ Base.points[1].ele # Base.points[8].ele

\* the analysis of the same base track with one lap more
OneLapMore == effectOf(Base, laps + 1)

\* C22: every climb of the analysis with N laps is in the analysis of the
\* same base track with N + 1 laps with the same id and the same start
\* distance.
C22_IdsStableAcrossLaps ==
  Analysed =>
    LET more == OneLapMore.climbs
    IN  \A x \in 1..Len(Result.climbs) :
          \E y \in 1..Len(more) :
            /\ more[y].id = Result.climbs[x].id
            /\ more[y].startDist = Result.climbs[x].startDist

C22_Witness ==
  /\ Analysed
  /\ laps >= 2
  /\ Len(Result.climbs) >= 2
  /\ Len(OneLapMore.climbs) > Len(Result.climbs)

\* C23: a load callback for a text with track points sets laps to 1 and
\* replaces the base track by the one built from the text, whatever laps
\* was and whether or not a result is stored, and makes the effect due;
\* while the effect is due there is a base track and no step but the
\* effect's is possible, and that step stores the analysis of that base track with that laps
\* (1 after an upload), also when no result was stored before.
C23_UploadResets ==
  /\ [][ \A r \in Loading :
           (ReaderOnload(r) /\ Len(reading[r].text) > 0) =>
             /\ laps' = 1
             /\ baseData' = << baseDataOf(reading[r].text) >>
             /\ pc' = "effect" ]_vars
  /\ [](pc = "effect" => baseData # <<>>)
  /\ [][ pc = "effect" =>
           /\ pc' = "idle"
           /\ baseData' = baseData
           /\ laps' = laps
           /\ fileData' = << analyzeRoute(fullPoints(Base, laps, 0),
                                          Base.distance * laps) >> ]_vars

\* a result of two laps is stored, laps is 1 again and the effect is due
C23_Witness ==
  /\ pc = "effect"
  /\ laps = 1
  /\ fileData # <<>>
  /\ Result.totalDistance > 0
  /\ Result.totalDistance # Base.distance
  /\ \E x \in 1..(Len(Result.points) - 1) :
       /\ 2 * Result.points[x].dist = Result.totalDistance
       /\ Result.points[x + 1].dist = Result.points[x].dist

\* C24: a single chunk that is not uphill and is no drop, lying between two
\* uphill chunks, does not end the climb: one climb holds the chunk before
\* it and the chunk after it.
C24_SingleDipIgnored ==
  Analysed =>
    \A x \in 2..(Len(chunks) - 1) :
      (/\ Above15(chunks[x - 1].gradient)
       /\ ~Above15(chunks[x].gradient)
       /\ chunks[x].gain >= 0
       /\ Above15(chunks[x + 1].gradient)) =>
        \E s \in 1..Len(climbs) :
          /\ climbs[s].startDist <= chunks[x - 1].startDist
          /\ climbs[s].endDist >= chunks[x + 1].endDist

Positive(a) == a.n * a.d > 0

\* C25: every climb of a result is at least 0.2 km long, has an average
\* gradient above 1.5 that is the gain over the length, in metres per
\* 100 m (the guard for a length of zero is not taken), a maximum gradient not below the average,
\* and a raw score and a final score above 0.
C25_RetainedClimbs ==
  Analysed =>
    \A x \in 1..Len(Result.climbs) :
      LET c == Result.climbs[x]
      IN  /\ c.lengthKm = c.endDist - c.startDist
          /\ c.lengthKm >= 2
          /\ SameNumber(c.gradientAvg, Rat(c.gain, c.lengthKm))
          /\ Above15(c.gradientAvg)
          /\ RLe(c.gradientAvg, c.maxGradient)
          /\ Positive(c.rawScore)
          /\ Positive(c.finalScore)

C25_Witness ==
  /\ Analysed
  /\ \E x \in 1..Len(Result.climbs) :
       LET c == Result.climbs[x]
       IN  /\ Len(c.chunks) >= 2
           /\ RLt(c.gradientAvg, c.maxGradient)
           /\ RLt(c.chunks[1].gradient, c.chunks[2].gradient)

\* the sum of the final scores of the first x climbs with multiplier 1.0 or
\* 0.8
RECURSIVE SumNearFinish(_)
SumNearFinish(x) ==
  IF x = 0 THEN RInt(0)
  ELSE LET c == Result.climbs[x]
       IN  IF SameNumber(c.multiplier, RInt(1))
              \/ SameNumber(c.multiplier, Rat(8, 10))
           THEN RAdd(c.finalScore, SumNearFinish(x - 1))
           ELSE SumNearFinish(x - 1)

\* C26: in every result 0 <= finalProfileScore <= totalScore; the climbs
\* counted in finalProfileScore are those with multiplier 1.0 or 0.8; and
\* on a course of at most 25 km every climb is counted, so that
\* finalProfileScore = totalScore.
C26_FinalZoneWithinOverall ==
  Analysed =>
    /\ RLe(RInt(0), Result.finalProfileScore)
    /\ RLe(Result.finalProfileScore, Result.totalScore)
    /\ SameNumber(Result.finalProfileScore, SumNearFinish(Len(Result.climbs)))
    /\ Result.totalDistance <= 250 =>
         /\ SameNumber(Result.finalProfileScore, Result.totalScore)
         /\ \A x \in 1..Len(Result.climbs) :
              Result.climbs[x].endDist >= Result.totalDistance - 250

C26_Witness ==
  /\ Analysed
  /\ Result.totalDistance > 250
  /\ Positive(Result.finalProfileScore)
  /\ RLt(Result.finalProfileScore, Result.totalScore)

\* the sum of the rises between consecutive points up to the point x
RECURSIVE RiseUpTo(_, _)
RiseUpTo(pts, x) ==
  IF x <= 1 THEN 0
  ELSE RiseUpTo(pts, x - 1)
       + (IF pts[x].ele > pts[x - 1].ele THEN pts[x].ele - pts[x - 1].ele
          ELSE 0)

BaseEles == {Base.points[x].ele : x \in 1..Len(Base.points)}

\* C27: with e0 and eL the first and last elevation of the base track and T1
\* its total climbing, the result for N laps has totalGain = eL - e0, the
\* minimum and maximum elevation of the base track, and totalClimbing =
\* N * T1 + (N - 1) * max(0, e0 - eL).
C27_LapsAndAggregates ==
  Analysed =>
    LET e0 == Base.points[1].ele
        eL == Base.points[Len(Base.points)].ele
        T1 == RiseUpTo(Base.points, Len(Base.points))
    IN  /\ Result.totalGain = eL - e0
        /\ Result.minEle \in BaseEles
        /\ Result.maxEle \in BaseEles
        /\ \A e \in BaseEles : Result.minEle <= e /\ e <= Result.maxEle
        /\ Result.totalClimbing =
             laps * T1 + (laps - 1) * (IF e0 > eL THEN e0 - eL ELSE 0)

C27_Witness ==
  /\ Analysed
  /\ laps >= 2
  /\ Base.points[1].ele > Base.points[Len(Base.points)].ele
  /\ RiseUpTo(Base.points, Len(Base.points)) > 0
  /\ Result.totalClimbing > laps * RiseUpTo(Base.points, Len(Base.points))

\* C28: a base track has at least one point; whenever the effect is due
\* there is a base track and the sequence it will hand to analyzeRoute is
\* not empty; a stored result has at least one point, and where a result is
\* stored a base track is stored.
C28_NeverEmptyPoints ==
  /\ baseData # <<>> => Len(Base.points) >= 1
  /\ pc = "effect" =>
       /\ baseData # <<>>
       /\ laps >= 1
       /\ Len(fullPoints(Base, laps, 0)) >= 1
  /\ fileData # <<>> =>
       /\ baseData # <<>>
       /\ Len(Result.points) >= 1

\* the effect is due for a base track of a single point
C28_Witness ==
  /\ pc = "effect"
  /\ baseData # <<>>
  /\ Len(Base.points) = 1
  /\ fileData = <<>>

\* C29: with two readers created before either has loaded, both for texts
\* with track points: when a load callback fires while the other reader is
\* still loading, isProcessing stays true; and when the second of the two
\* callbacks has fired, the base track is that of the file given to
\* handleFile last, whichever callback fired first.
C29_LastCallWins ==
  [][ \A r \in Loading :
        (/\ ReaderOnload(r)
         /\ Len(reading) = 2
         /\ Len(reading[1].text) > 0
         /\ Len(reading[2].text) > 0) =>
          /\ Loading # {r} => isProcessing'
          /\ Loading = {r} =>
               baseData' = << baseDataOf(reading[2].text) >> ]_vars

\* C30: the decrease button at laps = 1 changes nothing: laps stays 1, no
\* effect becomes due and the stored result keeps every climb name; a lap
\* button that changes laps makes the effect due, and the step of the
\* effect leaves every climb name of the result empty.
C30_DecreaseAtOneIsNoOp ==
  [][ /\ (DecreaseLapsButton /\ laps = 1) => UNCHANGED vars
      /\ ((DecreaseLapsButton \/ IncreaseLapsButton) /\ laps' # laps) =>
           /\ pc' = "effect"
           /\ fileData' = fileData
      /\ (pc = "effect" /\ pc' = "idle") => AllNamesEmpty(fileData'[1]) ]_vars

\* one lap, a result with a named climb, and the decrease button in reach
C30_Witness ==
  /\ Settled
  /\ laps = 1
  /\ Len(Result.climbs) >= 2
  /\ Result.climbs[1].name = "Col"

====
